---------------------------- MODULE Spec2Model ----------------------------
(***************************************************************************)
(* Asynchronous job lifecycle of the legal-document analysis server:       *)
(* the in-memory JobManager (ServerSide/job_manager.py) and the handlers   *)
(* and background driver that use it (ServerSide/api.py).                  *)
(*                                                                         *)
(* Encoding.                                                               *)
(*  - Python None is the empty tuple, a set value x is the 1-tuple <<x>>.  *)
(*  - A timestamp is the number of seconds on the wall clock.  The code    *)
(*    stores datetime.now().isoformat() and reads it back with             *)
(*    datetime.fromisoformat; the two are exact inverses on the values     *)
(*    datetime.now() produces, and the fixed-width ISO text orders as the  *)
(*    instants do, so the stored text is represented by the instant.       *)
(*  - A message is the sequence of its words, so that "contains the words  *)
(*    timed out" is a property of the value.                               *)
(*  - self.jobs is a Python dict: insertion ordered, an assignment to an   *)
(*    existing key keeps its position.  It is the sequence of its values   *)
(*    (every record carries its key in job_id).                            *)
(***************************************************************************)
EXTENDS Integers, Sequences, FiniteSets, TLC

(***************************************************************************)
(* Bounds of the model.                                                    *)
(***************************************************************************)
\* clock ticks in one behaviour
MaxTicks == 2
\* distinct job ids uuid4()[:8] may produce in one behaviour of the server
MaxIds == 2
\* distinct job ids in a behaviour of direct calls to the JobManager
MaxStoreIds == 1
\* largest total a direct caller passes to update_job_progress
MaxStoreTotal == 1
\* files of one upload
MaxFiles == 2
\* concurrent submissions (requests to /analyze-legal-document-async)
MaxRequests == 2
\* clauses the analyzer returns for one document
MaxClauses == 1
\* distinct job ids in the behaviours that put the store under pressure
MaxPressureIds == 7
\* clock ticks in those behaviours
MaxPressureTicks == 1
\* largest total passed to update_job_progress when its arithmetic is examined
MaxProgressTotal == 50

(***************************************************************************)
(* Program constants.                                                      *)
(***************************************************************************)
\* self.max_jobs.  The source sets 100; the model scales the threshold so
\* that a full store is reachable.  It enters the code only in the
\* comparison len(self.jobs) >= self.max_jobs.
max_jobs == 5
\* self.job_timeout, seconds
job_timeout == 300
\* the divisor of "remove 20%": len(sorted_jobs) // 5
EvictDivisor == 5
\* max_clauses of the driver
max_clauses == 10

PENDING == "pending"
PROCESSING == "processing"
COMPLETED == "completed"
FAILED == "failed"
JobStatus == {PENDING, PROCESSING, COMPLETED, FAILED}
Terminal == {COMPLETED, FAILED}

None == <<>>
Some(x) == <<x>>

\* "Job timed out after 5 minutes"
TimeoutMessage == <<"Job", "timed", "out", "after", "5", "minutes">>
\* f"Background processing failed: {str(e)}"
BackgroundFailure(e) == <<"Background", "processing", "failed:">> \o e
\* the text of an exception raised by a collaborator or by the file system
ExcText == <<"boom">>

\* msg contains the words "timed out"
ContainsTimedOut(msg) ==
    \E i \in 1..(Len(msg) - 1) : msg[i] = "timed" /\ msg[i + 1] = "out"

(***************************************************************************)
(* The dict self.jobs.                                                     *)
(***************************************************************************)
Keys(js) == {js[i].job_id : i \in DOMAIN js}
Has(js, job_id) == job_id \in Keys(js)
IndexOf(js, job_id) == CHOOSE i \in DOMAIN js : js[i].job_id = job_id
Lookup(js, job_id) == js[IndexOf(js, job_id)]
\* self.jobs[job_id] = rec
Put(js, job_id, rec) ==
    IF Has(js, job_id) THEN [js EXCEPT ![IndexOf(js, job_id)] = rec]
    ELSE Append(js, rec)
\* del self.jobs[job_id]
Del(js, job_id) == SelectSeq(js, LAMBDA j : j.job_id # job_id)

\* d.update(kw): the keys of kw are set, the others kept
Merge(d, kw) ==
    [k \in (DOMAIN d) \cup (DOMAIN kw) |-> IF k \in DOMAIN kw THEN kw[k] ELSE d[k]]

(***************************************************************************)
(* Double-precision arithmetic, as far as update_job_progress uses it:     *)
(* processed / total and the product with 100 are IEEE 754 binary64        *)
(* operations (53-bit significand, round to nearest, ties to even), and    *)
(* int() truncates.  A positive double is [m |-> <<l0, l1, l2, l3, l4>>,   *)
(* e |-> e]: the significand M = l0 * 2^52 + l1 * 2^39 + l2 * 2^26 +        *)
(* l3 * 2^13 + l4 with l0 = 1 and 13-bit limbs l1..l4, and the value       *)
(* M * 2^(e - 52), which lies in [2^e, 2^(e+1)).  The numbers involved     *)
(* here are far from the overflow and underflow thresholds.                *)
(***************************************************************************)
LimbBits == 13

RECURSIVE Pow2(_)
Pow2(n) == IF n = 0 THEN 1 ELSE 2 * Pow2(n - 1)

Base == Pow2(LimbBits)

RECURSIVE BitLen(_)
\* the number of binary digits of n
BitLen(n) == IF n = 0 THEN 0 ELSE 1 + BitLen(n \div 2)

RECURSIVE LeadingShift(_, _)
\* the least s with p * 2^s >= t
LeadingShift(p, t) == IF p >= t THEN 0 ELSE 1 + LeadingShift(2 * p, t)

\* the next double above the one with significand m and exponent e
NextUp(m, e) ==
    LET s4  == m[5] + 1
        s3  == m[4] + (s4 \div Base)
        s2  == m[3] + (s3 \div Base)
        s1  == m[2] + (s2 \div Base)
        top == m[1] + (s1 \div Base)
    IN  IF top = 2 THEN [m |-> <<1, 0, 0, 0, 0>>, e |-> e + 1]
        ELSE [m |-> <<top, s1 % Base, s2 % Base, s3 % Base, s4 % Base>>, e |-> e]

\* the double p / t for integers p > 0, t > 0: 53 digits of the quotient by
\* long division, then rounding on the remainder
FloatDiv(p, t) ==
    LET e  == IF p >= t THEN BitLen(p \div t) - 1 ELSE 0 - LeadingShift(p, t)
        pn == IF p >= t THEN p ELSE p * Pow2(0 - e)
        tn == IF p >= t THEN t * Pow2(e) ELSE t
        r0 == pn % tn
        l1 == (r0 * Base) \div tn
        r1 == (r0 * Base) % tn
        l2 == (r1 * Base) \div tn
        r2 == (r1 * Base) % tn
        l3 == (r2 * Base) \div tn
        r3 == (r2 * Base) % tn
        l4 == (r3 * Base) \div tn
        r4 == (r3 * Base) % tn
        m  == <<pn \div tn, l1, l2, l3, l4>>
    IN  IF 2 * r4 > tn \/ (2 * r4 = tn /\ l4 % 2 = 1) THEN NextUp(m, e)
        ELSE [m |-> m, e |-> e]

\* the double x * 100: the exact product, rounded to 53 digits
FloatTimes100(x) ==
    LET c4  == x.m[5] * 100
        c3  == x.m[4] * 100 + (c4 \div Base)
        c2  == x.m[3] * 100 + (c3 \div Base)
        c1  == x.m[2] * 100 + (c2 \div Base)
        top == x.m[1] * 100 + (c1 \div Base)
        n   == <<top, c1 % Base, c2 % Base, c3 % Base, c4 % Base>>
        \* the product has k digits too many
        k   == BitLen(top) - 1
        K   == Pow2(k)
        U   == Pow2(LimbBits - k)
        m2  == <<n[1] \div K,
                 (n[1] % K) * U + (n[2] \div K),
                 (n[2] % K) * U + (n[3] \div K),
                 (n[3] % K) * U + (n[4] \div K),
                 (n[4] % K) * U + (n[5] \div K)>>
        dropped == n[5] % K
        half    == K \div 2
    IN  IF dropped > half \/ (dropped = half /\ m2[5] % 2 = 1) THEN NextUp(m2, x.e + k)
        ELSE [m |-> m2, e |-> x.e + k]

RECURSIVE LimbsValue(_)
LimbsValue(ls) ==
    IF ls = <<>> THEN 0
    ELSE LimbsValue(SubSeq(ls, 1, Len(ls) - 1)) * Base + ls[Len(ls)]

\* int(x) for a double x with 1 <= x < 2^26, and 0 for x < 1
FloatToInt(x) ==
    LET sh == 4 * LimbBits - x.e
    IN  IF x.e < 0 THEN 0
        ELSE LimbsValue(SubSeq(x.m, 1, 5 - (sh \div LimbBits))) \div Pow2(sh % LimbBits)

\* int((processed / total) * 100) if total > 0 else 0.  Each intermediate
\* double is computed once and bound as a value: quotient, then product.
ProgressPercent(processed, total) ==
    IF total > 0 /\ processed > 0
    THEN CHOOSE percent \in
             {FloatToInt(product) :
                 product \in {FloatTimes100(quotient) :
                     quotient \in {FloatDiv(processed, total)}}} : TRUE
    ELSE 0

\* mutant: created_at is read from a clock that is an hour ahead
NewJobClockAhead(job_id, job_type, t) ==
    [job_id |-> job_id, job_type |-> job_type, status |-> PENDING,
     created_at |-> t + 3600, started_at |-> None, completed_at |-> None,
     result |-> None, error |-> None,
     progress |-> 0, total_files |-> 0, processed_files |-> 0]

NewJob(job_id, job_type, t) ==
    [job_id |-> job_id, job_type |-> job_type, status |-> PENDING,
     created_at |-> t, started_at |-> None, completed_at |-> None,
     result |-> None, error |-> None,
     progress |-> 0, total_files |-> 0, processed_files |-> 0]

RECURSIVE SortedByCreatedAt(_)
\* sorted(pairs, key=lambda x: x[1]): stable, ascending in created_at.
\* A pair is <<job_id, created_at>>.
SortedByCreatedAt(ps) ==
    IF ps = <<>> THEN <<>>
    ELSE LET last == ps[Len(ps)]
             rest == SortedByCreatedAt(SubSeq(ps, 1, Len(ps) - 1))
             le   == SelectSeq(rest, LAMBDA p : p[2] <= last[2])
             gt   == SelectSeq(rest, LAMBDA p : p[2] > last[2])
         IN  le \o <<last>> \o gt

RECURSIVE DelAll(_, _)
DelAll(js, ids) ==
    IF ids = <<>> THEN js ELSE DelAll(Del(js, ids[1]), Tail(ids))

\* mutant: the status filter is missing, every job is a candidate
AllPairs(js) ==
    SortedByCreatedAt([i \in DOMAIN js |-> <<js[i].job_id, js[i].created_at>>])

\* the (job_id, created_at) pairs of the completed and failed jobs, sorted
TerminalPairs(js) ==
    LET term == SelectSeq(js, LAMBDA j : j.status \in {COMPLETED, FAILED})
    IN  SortedByCreatedAt([i \in DOMAIN term |-> <<term[i].job_id, term[i].created_at>>])

\* mutant: the 20% are rounded up
CleanupVictimsRoundedUp(js) ==
    LET sorted_jobs == TerminalPairs(js)
        to_remove   == (Len(sorted_jobs) + EvictDivisor - 1) \div EvictDivisor
    IN  [i \in 1..to_remove |-> sorted_jobs[i][1]]

\* the ids _cleanup_old_jobs deletes, in the order it deletes them
CleanupVictims(js) ==
    LET sorted_jobs == TerminalPairs(js)
        to_remove   == Len(sorted_jobs) \div EvictDivisor
    IN  [i \in 1..to_remove |-> sorted_jobs[i][1]]

_cleanup_old_jobs(js) == DelAll(js, CleanupVictims(js))

\* the ids the cleanup inside create_job deletes (none below max_jobs)
CreateVictims(js) ==
    IF Len(js) >= max_jobs THEN CleanupVictims(js) ELSE <<>>

\* create_job with the id uuid4()[:8] produced
create_job(js, job_id, job_type, t) ==
    LET cleaned == IF Len(js) >= max_jobs THEN _cleanup_old_jobs(js) ELSE js
    IN  Put(cleaned, job_id, NewJob(job_id, job_type, t))

\* mutant: an unknown id gets a record (self.jobs.setdefault instead of the test)
update_job_status_upsert(js, job_id, status, kwargs, t) ==
    LET j0 == IF Has(js, job_id) THEN Lookup(js, job_id)
              ELSE NewJob(job_id, "legal_analysis", t)
        j1 == [j0 EXCEPT !.status = status]
        j2 == IF status \in {COMPLETED, FAILED}
                 THEN [j1 EXCEPT !.completed_at = Some(t)]
              ELSE j1
    IN  Put(js, job_id, Merge(j2, kwargs))

update_job_status(js, job_id, status, kwargs, t) ==
    IF ~Has(js, job_id) THEN js
    ELSE LET j0 == Lookup(js, job_id)
             j1 == [j0 EXCEPT !.status = status]
             j2 == IF status = PROCESSING /\ "started_at" \notin DOMAIN j1
                      THEN Merge(j1, [started_at |-> Some(t)])
                   ELSE IF status \in {COMPLETED, FAILED}
                      THEN [j1 EXCEPT !.completed_at = Some(t)]
                   ELSE j1
         IN  Put(js, job_id, Merge(j2, kwargs))

\* mutant: the counts are written to every job of the store
update_job_progress_everywhere(js, job_id, processed, total) ==
    IF ~Has(js, job_id) THEN js
    ELSE [i \in DOMAIN js |->
             [js[i] EXCEPT !.processed_files = processed,
                           !.total_files = total,
                           !.progress = ProgressPercent(processed, total)]]

\* mutant: the two counts are stored the wrong way round
update_job_progress_swapped(js, job_id, processed, total) ==
    IF ~Has(js, job_id) THEN js
    ELSE Put(js, job_id,
             [Lookup(js, job_id) EXCEPT !.processed_files = total,
                                        !.total_files = processed,
                                        !.progress = ProgressPercent(total, processed)])

update_job_progress(js, job_id, processed, total) ==
    IF ~Has(js, job_id) THEN js
    ELSE Put(js, job_id,
             [Lookup(js, job_id) EXCEPT !.processed_files = processed,
                                        !.total_files = total,
                                        !.progress = ProgressPercent(processed, total)])

set_job_result(js, job_id, result, t) ==
    update_job_status(js, job_id, COMPLETED, [result |-> Some(result)], t)

set_job_error(js, job_id, error, t) ==
    update_job_status(js, job_id, FAILED, [error |-> Some(error)], t)

\* mutant: the test of the status is missing
TimedOutAnyStatus(job, t) ==
    /\ job.started_at # None
    /\ t - job.started_at[1] > job_timeout

\* mutant: the timeout fires already at exactly job_timeout seconds
TimedOutAtLimit(job, t) ==
    /\ job.status = PROCESSING
    /\ job.started_at # None
    /\ t - job.started_at[1] >= job_timeout

\* the timeout test of get_job
TimedOut(job, t) ==
    /\ job.status = PROCESSING
    /\ job.started_at # None
    /\ t - job.started_at[1] > job_timeout

\* mutant: the timeout is applied to every stored job, whichever id is asked for
get_job_store_sweeping(js, job_id, t) ==
    [i \in DOMAIN js |->
        IF TimedOut(js[i], t)
        THEN [js[i] EXCEPT !.status = FAILED, !.error = Some(TimeoutMessage),
                           !.completed_at = Some(t)]
        ELSE js[i]]

\* the store after get_job(job_id)
get_job_store(js, job_id, t) ==
    IF Has(js, job_id) /\ TimedOut(Lookup(js, job_id), t)
    THEN LET after == set_job_error(js, job_id, TimeoutMessage, t)
         IN  Put(after, job_id, [Lookup(after, job_id) EXCEPT !.status = FAILED])
    ELSE js

\* what get_job(job_id) returns: the stored dict itself, or None
get_job(js, job_id, t) ==
    IF Has(js, job_id) THEN Some(Lookup(get_job_store(js, job_id, t), job_id))
    ELSE None

get_job_summary(js) ==
    [s \in JobStatus \cup {"total"} |->
        IF s = "total" THEN Len(js)
        ELSE Cardinality({i \in DOMAIN js : js[i].status = s})]


(***************************************************************************)
(* State.                                                                  *)
(***************************************************************************)
VARIABLES
    jobs,       \* job_manager.jobs
    now,        \* the wall clock datetime.now() reads, seconds
    last_id,    \* how many distinct ids uuid4()[:8] has produced so far
    call,       \* the last operation: its name, arguments and return value
    since,      \* per job id: the time it entered Processing, while it is there
    evicted,    \* the ids the last create_job deleted
    handler,    \* per request: the submit handler analyze_legal_document_async
    driver,     \* per request: its process_legal_documents_background task
    temp_dir,   \* per request: the directory tempfile.mkdtemp made
    running     \* the request whose driver holds the event loop, or 0

vars == <<jobs, now, last_id, call, since, evicted, handler, driver, temp_dir, running>>
sysvars == <<handler, driver, temp_dir, running>>

JobIds == 1..MaxIds
\* the ids a direct caller passes: those create_job can return, and one it never returns
StoreIds == 1..(MaxStoreIds + 1)
Requests == 1..MaxRequests

\* the ids a call of uuid4()[:8] can return: one produced before, or a new one
Draws(limit) == {id \in 1..(last_id + 1) : id <= limit}
Drawn(id) == IF id > last_id THEN id ELSE last_id

\* The instants at which the clock is read along a behaviour: 0, then
\* alternately a whole timeout period and one second later (0, 300, 301,
\* 601, ...), so that elapsed times below, at and above the timeout occur.
Period == job_timeout + 1
TicksOf(t) == 2 * (t \div Period) + (IF t % Period = 0 THEN 0 ELSE 1)
NextReading(t) == IF t % Period = 0 THEN t + job_timeout ELSE t + 1

StatusOf(js, id) == IF Has(js, id) THEN Lookup(js, id).status ELSE "absent"

\* the bookkeeping of `since` over a step from store js to store js2 at time t
SinceAfter(js, js2, t) ==
    [id \in DOMAIN since |->
        IF StatusOf(js2, id) # PROCESSING THEN None
        ELSE IF StatusOf(js, id) # PROCESSING THEN Some(t)
        ELSE since[id]]

NoCall == [op |-> "none", job_id |-> 0, arg |-> None, ret |-> None]

IdleHandler == [pc |-> "idle", job_id |-> 0, files |-> <<>>, file_paths |-> <<>>]
\* the driver's arguments and locals; exc is the exception the outer except
\* branch caught; outcomes records what the collaborators did with each file
IdleDriver ==
    [pc |-> "none", job_id |-> 0, file_paths |-> <<>>, i |-> 0,
     all_legal_analyses |-> <<>>, processed_files |-> <<>>, exc |-> None,
     outcomes |-> <<>>]

Init ==
    /\ jobs = <<>>
    /\ now = 0
    /\ last_id = 0
    /\ call = NoCall
    /\ since = [id \in JobIds \cup StoreIds |-> None]
    /\ evicted = {}
    /\ handler = [r \in Requests |-> IdleHandler]
    /\ driver = [r \in Requests |-> IdleDriver]
    /\ temp_dir = [r \in Requests |-> [state |-> "none", removed_by |-> {}]]
    /\ running = 0

\* time passes
TickWithin(limit) ==
    /\ TicksOf(now) < limit
    /\ now' = NextReading(now)
    /\ call' = [NoCall EXCEPT !.op = "tick"]
    /\ UNCHANGED <<jobs, last_id, since, evicted, sysvars>>

Tick == TickWithin(MaxTicks)

(***************************************************************************)
(* The JobManager called directly, one method at a time, with any          *)
(* arguments (as a unit test of job_manager.py does).                      *)
(***************************************************************************)
\* the store becomes js2 by the call c
StoreStep(js2, c) ==
    /\ jobs' = js2
    /\ call' = c
    /\ since' = SinceAfter(jobs, js2, now)
    /\ UNCHANGED <<now, sysvars>>

\* the **kwargs a caller passes to update_job_status
KwargsChoices == {<<>>} \cup {[started_at |-> Some(t)] : t \in {0, now}}

CallCreateJob(ids) ==
    \E id \in ids :
        /\ last_id' = Drawn(id)
        /\ evicted' = {CreateVictims(jobs)[i] : i \in DOMAIN CreateVictims(jobs)}
        /\ StoreStep(create_job(jobs, id, "legal_analysis", now),
                     [op |-> "create_job", job_id |-> id, arg |-> None, ret |-> Some(id)])

CallGetJob(ids) ==
    \E id \in ids :
        /\ StoreStep(get_job_store(jobs, id, now),
                     [op |-> "get_job", job_id |-> id, arg |-> None,
                      ret |-> get_job(jobs, id, now)])
        /\ UNCHANGED <<last_id, evicted>>

CallUpdateJobStatus(ids, kws) ==
    \E id \in ids, status \in JobStatus, kwargs \in kws :
        /\ StoreStep(update_job_status(jobs, id, status, kwargs, now),
                     [op |-> "update_job_status", job_id |-> id,
                      arg |-> <<status, kwargs>>, ret |-> None])
        /\ UNCHANGED <<last_id, evicted>>

CallUpdateJobProgress(ids, totals) ==
    \E id \in ids, total \in totals :
        \E processed \in 0..total :
            /\ StoreStep(update_job_progress(jobs, id, processed, total),
                         [op |-> "update_job_progress", job_id |-> id,
                          arg |-> <<processed, total>>, ret |-> None])
            /\ UNCHANGED <<last_id, evicted>>

CallSetJobResult(ids) ==
    \E id \in ids :
        /\ StoreStep(set_job_result(jobs, id, "result", now),
                     [op |-> "set_job_result", job_id |-> id, arg |-> "result", ret |-> None])
        /\ UNCHANGED <<last_id, evicted>>

CallSetJobError(ids) ==
    \E id \in ids :
        /\ StoreStep(set_job_error(jobs, id, ExcText, now),
                     [op |-> "set_job_error", job_id |-> id, arg |-> ExcText, ret |-> None])
        /\ UNCHANGED <<last_id, evicted>>

CallGetJobSummary ==
    /\ StoreStep(jobs, [op |-> "get_job_summary", job_id |-> 0, arg |-> None,
                        ret |-> get_job_summary(jobs)])
    /\ UNCHANGED <<last_id, evicted>>

StoreNext ==
    \/ Tick
    \/ CallGetJob(StoreIds)
    \/ CallUpdateJobStatus(StoreIds, KwargsChoices)
    \/ CallUpdateJobProgress(StoreIds, 0..MaxStoreTotal)
    \/ CallSetJobResult(StoreIds)
    \/ CallSetJobError(StoreIds)
    \/ CallGetJobSummary
    \/ CallCreateJob(Draws(MaxStoreIds))

StoreSpec == Init /\ [][StoreNext]_vars

(***************************************************************************)
(* update_job_progress called with every pair processed <= total up to     *)
(* MaxProgressTotal, in any order, on a job of the store.                  *)
(***************************************************************************)
ProgressNext ==
    \/ CallCreateJob({id \in Draws(MaxStoreIds) : id > last_id})
    \/ CallUpdateJobProgress(Keys(jobs), 0..MaxProgressTotal)

ProgressSpec == Init /\ [][ProgressNext]_vars

(***************************************************************************)
(* The store under pressure: a client creates job after job and takes each *)
(* through the calls the driver makes on it (update_job_status(PROCESSING),*)
(* then set_job_result or set_job_error), or leaves it where it is, before *)
(* it creates the next; so create_job runs with the store at and above     *)
(* max_jobs, holding jobs of every status in every position.  Here uuid4   *)
(* returns a new id each time.                                             *)
(***************************************************************************)
\* the job created last, if it has the given status
Newest(status) ==
    IF jobs # <<>> /\ jobs[Len(jobs)].status = status THEN {jobs[Len(jobs)].job_id}
    ELSE {}

PressureNext ==
    \/ TickWithin(MaxPressureTicks)
    \/ CallCreateJob({id \in Draws(MaxPressureIds) : id > last_id})
    \/ CallUpdateJobStatus(Newest(PENDING), {<<>>}) /\ call'.arg[1] = PROCESSING
    \/ CallSetJobResult(Newest(PROCESSING))
    \/ CallSetJobError(Newest(PROCESSING))

PressureSpec == Init /\ [][PressureNext]_vars

(***************************************************************************)
(* Two jobs side by side in the store: a caller creates them, starts them  *)
(* with or without a started_at, completes them, lets time pass beyond the *)
(* timeout, and reads one job or the summary while the other is overdue.   *)
(***************************************************************************)
LazyNext ==
    \/ Tick
    \/ CallCreateJob(Draws(MaxIds))
    \/ CallUpdateJobStatus(JobIds, KwargsChoices) /\ call'.arg[1] = PROCESSING
    \/ CallSetJobResult(JobIds)
    \/ CallGetJob(JobIds)
    \/ CallGetJobSummary

LazySpec == Init /\ [][LazyNext]_vars

(***************************************************************************)
(* The server: the handlers of api.py and the background driver.  All of   *)
(* them run on one asyncio event loop, so a coroutine is interrupted only  *)
(* where it awaits.  The submit handler awaits file.read() once per        *)
(* uploaded file; process_legal_documents_background contains no await,    *)
(* so once started it runs to its end before any other handler or driver   *)
(* runs (`running` holds its request meanwhile); only the clock moves.     *)
(***************************************************************************)
\* the store becomes js2 by the operation c
ServerStep(js2, c) ==
    /\ jobs' = js2
    /\ call' = c
    /\ since' = SinceAfter(jobs, js2, now)
    /\ UNCHANGED now

JobOf(r) == driver[r].job_id

NoDir == [state |-> "none", removed_by |-> {}]

\* if os.path.exists(temp_dir): shutil.rmtree(temp_dir, ignore_errors=True)
RemoveTempDir(d, who) ==
    IF d.state = "exists"
    THEN [state |-> "removed", removed_by |-> d.removed_by \cup {who}]
    ELSE d

\* the basename of the k-th uploaded file
FileName(k) == k

\* POST /analyze-legal-document-async, from the validated request to the
\* first await: create_job, mkdtemp (which may raise), enter the loop.
SubmitBegin(r) ==
    /\ running = 0
    /\ handler[r].pc = "idle"
    \* requests are numbered in the order they arrive
    /\ \A q \in Requests : q < r => handler[q].pc # "idle"
    /\ \E id \in Draws(MaxIds), n \in 1..MaxFiles, mkdtemp \in {"ok", "raises"} :
        /\ last_id' = Drawn(id)
        /\ evicted' = {CreateVictims(jobs)[i] : i \in DOMAIN CreateVictims(jobs)}
        /\ ServerStep(create_job(jobs, id, "legal_analysis", now),
                      [op |-> "submit", job_id |-> id, arg |-> n, ret |-> None])
        /\ handler' = [handler EXCEPT ![r] =
                          [pc |-> IF mkdtemp = "ok" THEN "reading" ELSE "raised",
                           job_id |-> IF mkdtemp = "ok" THEN id ELSE 0,
                           files |-> IF mkdtemp = "ok" THEN [k \in 1..n |-> FileName(k)]
                                     ELSE <<>>,
                           file_paths |-> <<>>]]
        /\ temp_dir' = [temp_dir EXCEPT ![r] =
                          IF mkdtemp = "ok" THEN [NoDir EXCEPT !.state = "exists"] ELSE NoDir]
        /\ UNCHANGED <<driver, running>>

\* the handler resumes after await file.read() and writes the file; after
\* the last file it records the file count, schedules the driver and returns
SubmitStore(r) ==
    /\ running = 0
    /\ handler[r].pc = "reading"
    /\ LET h    == handler[r]
           k    == Len(h.file_paths) + 1
           last == k = Len(h.files)
       IN  /\ handler' = [handler EXCEPT ![r] =
                            IF last THEN [IdleHandler EXCEPT !.pc = "returned"]
                            ELSE [h EXCEPT !.file_paths = Append(h.file_paths, h.files[k])]]
           /\ IF last
              THEN /\ ServerStep(update_job_progress(jobs, h.job_id, 0, Len(h.files)),
                                 [op |-> "accepted", job_id |-> h.job_id,
                                  arg |-> Len(h.files), ret |-> Some(h.job_id)])
                   /\ driver' = [driver EXCEPT ![r] =
                          [IdleDriver EXCEPT !.pc = "scheduled", !.job_id = h.job_id,
                                             !.file_paths = Append(h.file_paths, h.files[k])]]
              ELSE /\ ServerStep(jobs, [op |-> "stored", job_id |-> h.job_id,
                                        arg |-> k, ret |-> None])
                   /\ UNCHANGED driver
    /\ UNCHANGED <<last_id, evicted, temp_dir, running>>

\* reading or writing an uploaded file raises: the except branch removes the
\* directory, marks the job failed and answers 500
SubmitFail(r) ==
    /\ running = 0
    /\ handler[r].pc = "reading"
    /\ temp_dir' = [temp_dir EXCEPT ![r] = RemoveTempDir(temp_dir[r], "handler")]
    /\ ServerStep(set_job_error(jobs, handler[r].job_id, ExcText, now),
                  [op |-> "rejected", job_id |-> handler[r].job_id, arg |-> None, ret |-> None])
    /\ handler' = [handler EXCEPT ![r] = [IdleHandler EXCEPT !.pc = "failed"]]
    /\ UNCHANGED <<last_id, evicted, driver, running>>

\* the scheduled task starts: update_job_status(job_id, PROCESSING)
DriverStart(r) ==
    /\ running = 0
    /\ driver[r].pc = "scheduled"
    /\ ServerStep(update_job_status(jobs, JobOf(r), PROCESSING, <<>>, now),
                  [op |-> "driver_start", job_id |-> JobOf(r), arg |-> None, ret |-> None])
    /\ driver' = [driver EXCEPT ![r].pc = "loop"]
    /\ running' = r
    /\ UNCHANGED <<last_id, evicted, handler, temp_dir>>

\* what the collaborators do with one file: the text is analysed ("ok"), the
\* text is shorter than 50 characters ("skip"), or extract_text_fast or
\* analyze_legal_document raises ("raises")
UnitOutcomes == {"ok", "skip", "raises"}

\* the items the clause loop appends for a file with c clauses
LegalItems(file, c) ==
    [j \in 1..(IF c < max_clauses THEN c ELSE max_clauses) |->
        [file |-> file, clause_id |-> j]]

\* mutant: a file that is skipped or raises ends the run as a failure
DriverUnitAborting(r) ==
    /\ running = r
    /\ driver[r].pc = "loop"
    /\ driver[r].i < Len(driver[r].file_paths)
    /\ \E outcome \in UnitOutcomes :
        LET d == driver[r]
            i == d.i
            n == Len(d.file_paths)
        IN  IF outcome = "ok"
            THEN /\ driver' = [driver EXCEPT ![r] =
                       [d EXCEPT !.i = i + 1,
                                 !.processed_files = Append(@, d.file_paths[i + 1]),
                                 !.outcomes = Append(@, outcome)]]
                 /\ ServerStep(update_job_progress(jobs, JobOf(r), i + 1, n),
                               [op |-> "unit", job_id |-> JobOf(r),
                                arg |-> <<i + 1, outcome>>, ret |-> None])
            ELSE /\ driver' = [driver EXCEPT ![r] =
                       [d EXCEPT !.pc = "finally", !.outcomes = Append(@, outcome)]]
                 /\ ServerStep(set_job_error(jobs, JobOf(r), BackgroundFailure(ExcText), now),
                               [op |-> "unit", job_id |-> JobOf(r),
                                arg |-> <<i + 1, outcome>>, ret |-> None])
    /\ UNCHANGED <<last_id, evicted, handler, temp_dir, running>>

\* one iteration of the loop over file_paths
DriverUnit(r) ==
    /\ running = r
    /\ driver[r].pc = "loop"
    /\ driver[r].i < Len(driver[r].file_paths)
    /\ \E outcome \in UnitOutcomes, c \in 0..MaxClauses :
        LET d    == driver[r]
            i    == d.i
            file == d.file_paths[i + 1]
            n    == Len(d.file_paths)
        IN  /\ outcome # "ok" => c = 0
            /\ IF outcome = "ok"
               THEN /\ driver' = [driver EXCEPT ![r] =
                          [d EXCEPT !.i = i + 1,
                                    !.all_legal_analyses = @ \o LegalItems(file, c),
                                    !.processed_files = Append(@, file),
                                    !.outcomes = Append(@, outcome)]]
                    /\ ServerStep(update_job_progress(jobs, JobOf(r), i + 1, n),
                                  [op |-> "unit", job_id |-> JobOf(r),
                                   arg |-> <<i + 1, outcome>>, ret |-> None])
               ELSE /\ driver' = [driver EXCEPT ![r] =
                          [d EXCEPT !.i = i + 1, !.outcomes = Append(@, outcome)]]
                    /\ ServerStep(jobs, [op |-> "unit", job_id |-> JobOf(r),
                                         arg |-> <<i + 1, outcome>>, ret |-> None])
    /\ UNCHANGED <<last_id, evicted, handler, temp_dir, running>>

\* the result the driver assembles after the loop
DriverResult(d, t) ==
    [status |-> "completed",
     files |-> d.processed_files,
     total_documents |-> Len(d.processed_files),
     total_clauses_analyzed |-> Len(d.all_legal_analyses),
     legal_analysis |-> d.all_legal_analyses,
     analyzed_at |-> t]

\* after the loop: set_job_result(job_id, result)
DriverCommit(r) ==
    /\ running = r
    /\ driver[r].pc = "loop"
    /\ driver[r].i = Len(driver[r].file_paths)
    /\ ServerStep(set_job_result(jobs, JobOf(r), DriverResult(driver[r], now), now),
                  [op |-> "driver_commit", job_id |-> JobOf(r), arg |-> None, ret |-> None])
    /\ driver' = [driver EXCEPT ![r].pc = "finally"]
    /\ UNCHANGED <<last_id, evicted, handler, temp_dir, running>>

\* mutant: there is no except branch, the exception leaves through finally
DriverSystemicUncaught(r) ==
    /\ running = r
    /\ driver[r].pc = "loop"
    /\ ServerStep(jobs, [op |-> "driver_except", job_id |-> JobOf(r), arg |-> None, ret |-> None])
    /\ driver' = [driver EXCEPT ![r].pc = "finally", ![r].exc = Some(ExcText)]
    /\ UNCHANGED <<last_id, evicted, handler, temp_dir, running>>

\* an exception escapes the loop or the assembly of the result: the outer
\* except branch calls set_job_error
DriverSystemic(r) ==
    /\ running = r
    /\ driver[r].pc = "loop"
    /\ ServerStep(set_job_error(jobs, JobOf(r), BackgroundFailure(ExcText), now),
                  [op |-> "driver_except", job_id |-> JobOf(r), arg |-> None, ret |-> None])
    /\ driver' = [driver EXCEPT ![r].pc = "finally", ![r].exc = Some(ExcText)]
    /\ UNCHANGED <<last_id, evicted, handler, temp_dir, running>>

\* mutant: the directory is removed at the end of the try body, not in finally
DriverFinallyOnSuccessOnly(r) ==
    /\ running = r
    /\ driver[r].pc = "finally"
    /\ temp_dir' = [temp_dir EXCEPT ![r] =
                      IF driver[r].exc = None THEN RemoveTempDir(temp_dir[r], "driver")
                      ELSE temp_dir[r]]
    /\ driver' = [driver EXCEPT ![r] = [IdleDriver EXCEPT !.pc = "done"]]
    /\ running' = 0
    /\ call' = [op |-> "driver_finally", job_id |-> JobOf(r), arg |-> None, ret |-> None]
    /\ UNCHANGED <<jobs, now, last_id, since, evicted, handler>>

\* finally: remove the temporary directory; the task ends
DriverFinally(r) ==
    /\ running = r
    /\ driver[r].pc = "finally"
    /\ temp_dir' = [temp_dir EXCEPT ![r] = RemoveTempDir(temp_dir[r], "driver")]
    /\ driver' = [driver EXCEPT ![r] = [IdleDriver EXCEPT !.pc = "done"]]
    /\ running' = 0
    /\ call' = [op |-> "driver_finally", job_id |-> JobOf(r), arg |-> None, ret |-> None]
    /\ UNCHANGED <<jobs, now, last_id, since, evicted, handler>>

\* the body GET /job-status/{job_id} answers with
StatusResponse(found) ==
    IF found = None THEN [http |-> 404]
    ELSE LET job == found[1]
         IN  IF job.status \in {PENDING, PROCESSING}
             THEN [http |-> 200, job_id |-> job.job_id, status |-> job.status,
                   progress |-> job.progress, processed_files |-> job.processed_files,
                   total_files |-> job.total_files, created_at |-> job.created_at,
                   started_at |-> job.started_at]
             ELSE IF job.status = COMPLETED
             THEN [http |-> 200, job_id |-> job.job_id, status |-> job.status,
                   progress |-> 100, created_at |-> job.created_at,
                   started_at |-> job.started_at, completed_at |-> job.completed_at,
                   result |-> job.result]
             ELSE [http |-> 200, job_id |-> job.job_id, status |-> job.status,
                   created_at |-> job.created_at, completed_at |-> job.completed_at,
                   error |-> job.error]

\* GET /job-status/{job_id}
GetJobStatus ==
    /\ running = 0
    /\ \E id \in JobIds :
        ServerStep(get_job_store(jobs, id, now),
                   [op |-> "get_job_status", job_id |-> id, arg |-> None,
                    ret |-> StatusResponse(get_job(jobs, id, now))])
    /\ UNCHANGED <<last_id, evicted, sysvars>>

\* GET /jobs
ListJobs ==
    /\ running = 0
    /\ ServerStep(jobs, [op |-> "list_jobs", job_id |-> 0, arg |-> None,
                         ret |-> get_job_summary(jobs)])
    /\ UNCHANGED <<last_id, evicted, sysvars>>

Next ==
    \/ Tick
    \/ \E r \in Requests : SubmitBegin(r)
    \/ \E r \in Requests : SubmitStore(r)
    \/ \E r \in Requests : SubmitFail(r)
    \/ \E r \in Requests : DriverStart(r)
    \/ \E r \in Requests : DriverUnit(r)
    \/ \E r \in Requests : DriverCommit(r)
    \/ \E r \in Requests : DriverSystemic(r)
    \/ \E r \in Requests : DriverFinally(r)
    \/ GetJobStatus
    \/ ListJobs

Spec == Init /\ [][Next]_vars

\* The event loop runs every task that is ready: a handler waiting in
\* await file.read() is resumed when the read returns or raises, and a
\* scheduled or running driver takes its next step.
HandlerResumes(r) == SubmitStore(r) \/ SubmitFail(r)
DriverRuns(r) ==
    \/ DriverStart(r)
    \/ DriverUnit(r)
    \/ DriverCommit(r)
    \/ DriverSystemic(r)
    \/ DriverFinally(r)

\* the server without the passing of time and the listing of jobs, neither
\* of which moves a job
LiveNext ==
    \/ \E r \in Requests : SubmitBegin(r)
    \/ \E r \in Requests : HandlerResumes(r)
    \/ \E r \in Requests : DriverRuns(r)
    \/ GetJobStatus

LiveSpec ==
    /\ Init
    /\ [][LiveNext]_vars
    /\ \A r \in Requests : WF_vars(HandlerResumes(r)) /\ WF_vars(DriverRuns(r))

(***************************************************************************)
(* Properties.                                                             *)
(***************************************************************************)
AllIds == 1..MaxPressureIds
TrackedIds == JobIds \cup StoreIds

\* the step is the call op on job id
IsCall(op, id) == call'.op = op /\ call'.job_id = id

\* the step is update_job_status(id, PROCESSING) with no keyword arguments,
\* the call the driver makes when it starts
IsPlainProcessing(id) ==
    /\ IsCall("update_job_status", id)
    /\ call'.arg[1] = PROCESSING
    /\ DOMAIN call'.arg[2] = {}

\* C1: once a job is Completed or Failed, no step changes its status.
C1_TerminalAbsorbing ==
    [][\A id \in AllIds :
          (Has(jobs, id) /\ Lookup(jobs, id).status \in Terminal /\ Has(jobs', id))
              => Lookup(jobs', id).status = Lookup(jobs, id).status]_vars

\* C3: update_job_status(id, PROCESSING) on a Pending job sets started_at,
\* and the same call on a job whose started_at is set leaves started_at alone.
C3_StartedAtSetOnce ==
    [][\A id \in AllIds :
          (IsPlainProcessing(id) /\ Has(jobs, id)) =>
              /\ Lookup(jobs, id).status = PENDING
                    => Lookup(jobs', id).started_at # None
              /\ Lookup(jobs, id).started_at # None
                    => Lookup(jobs', id).started_at = Lookup(jobs, id).started_at]_vars

\* C4: a get on a job that has been in Processing for more than job_timeout
\* seconds returns it Failed and leaves it not Processing in the store.
C4_StuckJobFailedByGet ==
    [][\A id \in TrackedIds :
          (/\ IsCall("get_job", id)
           /\ StatusOf(jobs, id) = PROCESSING
           /\ since[id] # None
           /\ now - since[id][1] > job_timeout)
          => /\ call'.ret # None
             /\ call'.ret[1].status = FAILED
             /\ StatusOf(jobs', id) # PROCESSING]_vars

\* C5: get on a Processing job whose started_at is set: when started_at is
\* more than job_timeout seconds ago, the returned record is Failed, its
\* error contains "timed out", its completed_at is set and the stored record
\* equals it; otherwise the record is returned as stored and nothing changes.
C5_GetAppliesTimeout ==
    [][\A id \in AllIds :
          (/\ IsCall("get_job", id)
           /\ Has(jobs, id)
           /\ Lookup(jobs, id).status = PROCESSING
           /\ Lookup(jobs, id).started_at # None)
          => IF now - Lookup(jobs, id).started_at[1] > job_timeout
             THEN /\ call'.ret # None
                  /\ call'.ret[1].status = FAILED
                  /\ call'.ret[1].error # None
                  /\ ContainsTimedOut(call'.ret[1].error[1])
                  /\ call'.ret[1].completed_at # None
                  /\ Has(jobs', id)
                  /\ Lookup(jobs', id) = call'.ret[1]
             ELSE /\ call'.ret = Some(Lookup(jobs, id))
                  /\ jobs' = jobs]_vars

\* C5 witness: a get has just failed a job with the timeout message
C5_Witness ==
    /\ call.op = "get_job"
    /\ call.ret # None
    /\ call.ret[1].status = FAILED
    /\ call.ret[1].error = Some(TimeoutMessage)
    /\ call.ret[1].started_at # None
    /\ now - call.ret[1].started_at[1] > job_timeout

\* C2: a job never has both result and error set; both are unset while it
\* is Pending or Processing; a Completed job has exactly result set and a
\* Failed job exactly error.
C2_ResultXorError ==
    \A i \in DOMAIN jobs :
        LET job == jobs[i]
        IN  /\ ~(job.result # None /\ job.error # None)
            /\ job.status \in {PENDING, PROCESSING} => job.result = None /\ job.error = None
            /\ job.status = COMPLETED => job.result # None /\ job.error = None
            /\ job.status = FAILED => job.error # None /\ job.result = None

\* the files among paths whose outcome was "ok", in the order of paths
OkFiles(paths, outcomes) ==
    LET idx == SelectSeq([k \in 1..Len(outcomes) |-> k], LAMBDA k : outcomes[k] = "ok")
    IN  [j \in 1..Len(idx) |-> paths[idx[j]]]

\* the driver of request r has left its try block without a systemic exception
RanToCommit(r) == driver[r].pc = "finally" /\ driver[r].exc = None

\* C8: files that are skipped or raise do not stop the driver: unless an
\* exception escapes the loop, every file is visited, the job ends Completed
\* and its result lists exactly the analysed files, in input order.
C8_UnitFailuresAreSkipped ==
    \A r \in Requests :
        (RanToCommit(r) /\ Has(jobs, JobOf(r))) =>
            LET d   == driver[r]
                job == Lookup(jobs, JobOf(r))
            IN  /\ Len(d.outcomes) = Len(d.file_paths)
                /\ job.status = COMPLETED
                /\ job.result # None
                /\ job.result[1].files = OkFiles(d.file_paths, d.outcomes)
                /\ job.result[1].total_documents = Len(OkFiles(d.file_paths, d.outcomes))

\* C8 witness: a run in which one file raised and another was analysed has committed
C8_Witness ==
    \E r \in Requests :
        /\ RanToCommit(r)
        /\ Has(jobs, JobOf(r))
        /\ Lookup(jobs, JobOf(r)).status = COMPLETED
        /\ \E k \in DOMAIN driver[r].outcomes : driver[r].outcomes[k] = "raises"
        /\ \E k \in DOMAIN driver[r].outcomes : driver[r].outcomes[k] = "ok"

\* C9: when the driver has committed Completed for n files, the job has
\* processed_files = total_files = n and progress = 100.
C9_ProgressCompleteAtCommit ==
    \A r \in Requests :
        (RanToCommit(r) /\ Has(jobs, JobOf(r))) =>
            LET n   == Len(driver[r].file_paths)
                job == Lookup(jobs, JobOf(r))
            IN  /\ job.processed_files = n
                /\ job.total_files = n
                /\ job.progress = 100

ExitedCleanly(r) ==
    temp_dir[r].state = "removed" /\ Cardinality(temp_dir[r].removed_by) = 1

\* C10: the temporary directory of a submission is removed exactly once: by
\* the driver when it has finished (whatever happened to the files), by the
\* handler when it failed before scheduling the driver; it is never removed
\* by both, and while it exists someone is still going to remove it.
C10_TempDirReleasedOnce ==
    \A r \in Requests :
        /\ driver[r].pc = "done" => ExitedCleanly(r) /\ temp_dir[r].removed_by = {"driver"}
        /\ handler[r].pc = "failed" => ExitedCleanly(r) /\ temp_dir[r].removed_by = {"handler"}
        /\ Cardinality(temp_dir[r].removed_by) <= 1
        /\ temp_dir[r].state = "exists" =>
              \/ handler[r].pc = "reading"
              \/ driver[r].pc \in {"scheduled", "loop", "finally"}

\* C10 witness: a driver that caught a systemic exception has finished and
\* its directory is gone
C10_Witness ==
    /\ call.op = "driver_finally"
    /\ Has(jobs, call.job_id)
    /\ Lookup(jobs, call.job_id).error = Some(BackgroundFailure(ExcText))
    /\ \E r \in Requests :
          /\ driver[r].pc = "done"
          /\ temp_dir[r] = [state |-> "removed", removed_by |-> {"driver"}]

TerminalIds(js) == {id \in Keys(js) : Lookup(js, id).status \in {COMPLETED, FAILED}}

\* C6: no step removes a job that is Pending or Processing, and a job leaves
\* the store only in a create_job step, as one of the jobs its cleanup deletes.
C6_LiveJobsStay ==
    [][\A id \in Keys(jobs) :
          /\ Lookup(jobs, id).status \in {PENDING, PROCESSING} => Has(jobs', id)
          /\ ~Has(jobs', id) => call'.op = "create_job" /\ id \in evicted']_vars

\* C6 witness: a create_job has just deleted a job while an older job that is
\* Pending or Processing is still in the store
C6_Witness ==
    /\ call.op = "create_job"
    /\ evicted # {}
    /\ \E id \in Keys(jobs) :
          id # call.job_id /\ Lookup(jobs, id).status \in {PENDING, PROCESSING}

\* C7: create_job on a store of at least max_jobs jobs, T of them Completed or
\* Failed, removes exactly floor(T/5) jobs, terminal ones with the smallest
\* created_at; on a smaller store it removes none; in both cases the new job is
\* in the store as Pending afterwards, whatever the size of the store.
C7_EvictOldestFifth ==
    [][call'.op = "create_job" =>
          LET removed == Keys(jobs) \ Keys(jobs')
              T       == Cardinality(TerminalIds(jobs))
          IN  /\ Len(jobs) >= max_jobs =>
                    /\ Cardinality(removed) = T \div 5
                    /\ removed \subseteq TerminalIds(jobs)
                    /\ \A gone \in removed, kept \in TerminalIds(jobs) \ removed :
                          Lookup(jobs, gone).created_at <= Lookup(jobs, kept).created_at
              /\ (Len(jobs) < max_jobs \/ T < 5) => removed = {}
              /\ Keys(jobs') = (Keys(jobs) \ removed) \cup {call'.job_id}
              /\ Lookup(jobs', call'.job_id).status = PENDING]_vars

\* C7 witness: a create_job on a full store has just deleted a job, and the
\* new job is Pending
C7_Witness ==
    /\ call.op = "create_job"
    /\ evicted # {}
    /\ Has(jobs, call.job_id)
    /\ Lookup(jobs, call.job_id).status = PENDING
    /\ Len(jobs) >= max_jobs

\* the suffix of msg of the length of part
EndsWith(msg, part) ==
    /\ Len(msg) >= Len(part)
    /\ SubSeq(msg, Len(msg) - Len(part) + 1, Len(msg)) = part

C12_ProgressInRange ==
    \A i \in DOMAIN jobs :
        LET job == jobs[i]
        IN  /\ 0 <= job.progress /\ job.progress <= 100
            /\ job.total_files > 0 => job.processed_files <= job.total_files
            /\ job.progress = 100 =>
                  \/ job.status = COMPLETED
                  \/ (job.processed_files = job.total_files /\ job.total_files > 0)

\* C12 witness: a job is Processing with one of its two files done
C12_Witness ==
    \E i \in DOMAIN jobs :
        /\ jobs[i].status = PROCESSING
        /\ jobs[i].processed_files = 1
        /\ jobs[i].total_files = 2
        /\ jobs[i].progress = 50

\* C13: update_job_progress(id, processed, total) on a stored job sets
\* processed_files = processed, total_files = total and progress =
\* floor(processed * 100 / total), or 0 when total = 0.
C13_ProgressIsFloor ==
    [][\A id \in AllIds :
          (IsCall("update_job_progress", id) /\ Has(jobs, id)) =>
              LET processed == call'.arg[1]
                  total     == call'.arg[2]
                  job       == Lookup(jobs', id)
              IN  /\ job.processed_files = processed
                  /\ job.total_files = total
                  /\ job.progress = IF total > 0 THEN (processed * 100) \div total ELSE 0]_vars

\* C14: completed_at is null while a job is Pending or Processing, is set by
\* the step that makes the job Completed or Failed, and once set is never
\* changed by a later step.
C14_CompletedAtSetOnce ==
    [][\A id \in AllIds :
          (Has(jobs, id) /\ Has(jobs', id)) =>
              LET before == Lookup(jobs, id)
                  after  == Lookup(jobs', id)
              IN  /\ after.status \in {PENDING, PROCESSING} => after.completed_at = None
                  /\ (before.status \notin Terminal /\ after.status \in Terminal)
                        => after.completed_at # None
                  /\ (before.completed_at # None /\ call'.op \notin {"create_job", "submit"})
                        => after.completed_at = before.completed_at]_vars

ProgressFields == {"processed_files", "total_files", "progress"}
Restrict(rec, fields) == [f \in (DOMAIN rec) \cap fields |-> rec[f]]

\* the steps of the server that update or read one job of the store
JobSteps ==
    {"accepted", "rejected", "driver_start", "unit", "driver_commit", "driver_except",
     "get_job_status"}

\* C16: a step that updates or reads job A leaves the record of every other
\* stored job B as it was; and no update is lost: a step that writes the
\* progress of A keeps the other fields of A at their latest values, and a
\* step that writes its status keeps its progress fields.
C16_JobsAreIsolated ==
    [][call'.op \in JobSteps =>
          /\ \A B \in Keys(jobs) \ {call'.job_id} :
                Has(jobs', B) /\ Lookup(jobs', B) = Lookup(jobs, B)
          /\ (Has(jobs, call'.job_id) /\ Has(jobs', call'.job_id)) =>
                LET before == Lookup(jobs, call'.job_id)
                    after  == Lookup(jobs', call'.job_id)
                IN  /\ call'.op \in {"accepted", "unit"} =>
                          Restrict(after, DOMAIN after \ ProgressFields)
                             = Restrict(before, DOMAIN before \ ProgressFields)
                    /\ call'.op \notin {"accepted", "unit"} =>
                          Restrict(after, ProgressFields) = Restrict(before, ProgressFields)]_vars

\* C16 witness: a driver has just recorded progress on its job while another
\* job, already Completed by its own driver, is in the store
C16_Witness ==
    /\ call.op = "unit"
    /\ Has(jobs, call.job_id)
    /\ Lookup(jobs, call.job_id).processed_files > 0
    /\ \E B \in Keys(jobs) \ {call.job_id} :
          Lookup(jobs, B).status = COMPLETED /\ Lookup(jobs, B).result # None

\* C17: get_job on a Completed job changes nothing in the store and returns
\* the stored record, so a second get_job right after it returns the same.
C17_GetCompletedIsReadOnly ==
    [][\A id \in AllIds :
          (IsCall("get_job", id) /\ Has(jobs, id) /\ Lookup(jobs, id).status = COMPLETED) =>
              /\ jobs' = jobs
              /\ call'.ret = Some(Lookup(jobs, id))
              /\ (call.op = "get_job" /\ call.job_id = id) => call'.ret = call.ret]_vars

\* C17 witness: get_job has just returned a Completed job whose started_at
\* lies more than job_timeout seconds back
C17_Witness ==
    /\ call.op = "get_job"
    /\ call.ret # None
    /\ call.ret[1].status = COMPLETED
    /\ call.ret[1].started_at # None
    /\ now - call.ret[1].started_at[1] > job_timeout
    /\ Lookup(jobs, call.job_id) = call.ret[1]

\* the calls that take the id of a job that must exist
ByIdCalls ==
    {"get_job", "update_job_status", "update_job_progress", "set_job_result", "set_job_error"}

\* C18: for an id that is not in the store, get_job returns None and the
\* update calls change nothing: the store is as before, with no record for
\* that id.
C18_UnknownIdIsNoOp ==
    [][\A id \in AllIds :
          (call'.job_id = id /\ call'.op \in ByIdCalls /\ ~Has(jobs, id)) =>
              /\ jobs' = jobs
              /\ ~Has(jobs', id)
              /\ call'.op = "get_job" => call'.ret = None]_vars

\* C18 witness: set_job_error has just been called with an id that is not in
\* the store, which holds another job
C18_Witness ==
    /\ call.op = "set_job_error"
    /\ ~Has(jobs, call.job_id)
    /\ jobs # <<>>

\* C19: the create_job of a submission leaves a record that is Pending, with
\* progress 0, no files counted, created_at set and started_at, completed_at,
\* result and error unset; and when the submission returns its job id, the
\* job is still Pending, total_files is the number of uploaded files, and the
\* driver is scheduled but has not started.
C19_SubmitLeavesPendingJob ==
    [][/\ call'.op = "submit" =>
             /\ Has(jobs', call'.job_id)
             /\ Lookup(jobs', call'.job_id) =
                   [job_id |-> call'.job_id, job_type |-> "legal_analysis",
                    status |-> PENDING, created_at |-> now,
                    started_at |-> None, completed_at |-> None,
                    result |-> None, error |-> None,
                    progress |-> 0, total_files |-> 0, processed_files |-> 0]
       /\ call'.op = "accepted" =>
             /\ call'.ret = Some(call'.job_id)
             /\ Has(jobs', call'.job_id)
             /\ Lookup(jobs', call'.job_id).status = PENDING
             /\ Lookup(jobs', call'.job_id).total_files = call'.arg
             /\ \E r \in Requests :
                   /\ handler[r].pc = "reading" /\ handler'[r].pc = "returned"
                   /\ driver'[r].pc = "scheduled"
                   /\ driver'[r].job_id = call'.job_id
                   /\ Len(driver'[r].file_paths) = call'.arg]_vars

\* C20: no step takes a job from Pending straight to Completed or Failed, and
\* the steps of the submission handler leave status and error of its job alone.
C20_NoPendingToTerminal ==
    [][\A id \in Keys(jobs) :
          Has(jobs', id) =>
              /\ Lookup(jobs, id).status = PENDING
                    => Lookup(jobs', id).status \notin Terminal
              /\ (call'.job_id = id /\ call'.op \in {"stored", "accepted", "rejected"}) =>
                    /\ Lookup(jobs', id).status = Lookup(jobs, id).status
                    /\ Lookup(jobs', id).error = Lookup(jobs, id).error]_vars

\* C21: between two work units of a running driver the event loop is free:
\* a status query can be served while the job is Processing with some but
\* not all of its files done.
C21_DriverYieldsBetweenUnits ==
    \A r \in Requests :
        (/\ driver[r].pc = "loop"
         /\ 0 < driver[r].i
         /\ driver[r].i < Len(driver[r].file_paths))
        => ENABLED GetJobStatus

\* C22: every job a submission has created is eventually Completed or Failed.
C22_EveryJobTerminates ==
    \A id \in JobIds :
        (StatusOf(jobs, id) \in {PENDING, PROCESSING}) ~> (StatusOf(jobs, id) \in Terminal)

\* C23: create_job never returns an id that is in the store, so it never
\* replaces a record, and the store grows by one minus the number of jobs
\* the cleanup deleted.
C23_IdsAreFresh ==
    [][call'.op = "create_job" =>
          /\ ~Has(jobs, call'.job_id)
          /\ \A id \in Keys(jobs) \ evicted' :
                Has(jobs', id) /\ Lookup(jobs', id) = Lookup(jobs, id)
          /\ Len(jobs') = Len(jobs) + 1 - Cardinality(evicted')]_vars

\* a Processing job whose timeout has elapsed at the present reading of the clock
Overdue(js, id) == Has(js, id) /\ TimedOut(Lookup(js, id), now)

\* C24: the timeout is applied only by get_job of the job itself: a Processing
\* job whose timeout has elapsed is left as it is, Processing, by every step
\* that is not a call on its own id (create, update and get of other jobs,
\* the summary, the passing of time); the summary counts it as processing;
\* get_job on the job itself makes it Failed.
C24_TimeoutOnlyOnOwnGet ==
    [][\A id \in JobIds :
          Overdue(jobs, id) =>
              /\ call'.job_id # id =>
                    /\ Has(jobs', id)
                    /\ Lookup(jobs', id) = Lookup(jobs, id)
              /\ call'.op = "get_job_summary" =>
                    /\ call'.ret[PROCESSING] =
                          Cardinality({k \in Keys(jobs) : StatusOf(jobs, k) = PROCESSING})
                    /\ call'.ret[FAILED] =
                          Cardinality({k \in Keys(jobs) : StatusOf(jobs, k) = FAILED})
              /\ IsCall("get_job", id) => StatusOf(jobs', id) = FAILED]_vars

\* get_job has just returned another stored job while this one is overdue and
\* still Processing
C24_Witness ==
    \E id \in JobIds :
        /\ Overdue(jobs, id)
        /\ call.op = "get_job"
        /\ call.job_id # id
        /\ call.ret # None

\* C25: a driver run without a systemic exception in which no file was
\* analysed (every file skipped or raising) still commits Completed: the job
\* has a result that lists no documents, and its processed_files is 0, the
\* value it had when the submit handler created it.
C25_ZeroSuccessesStillCompleted ==
    \A r \in Requests :
        (/\ RanToCommit(r)
         /\ Has(jobs, JobOf(r))
         /\ \A k \in DOMAIN driver[r].outcomes : driver[r].outcomes[k] # "ok") =>
            LET job == Lookup(jobs, JobOf(r))
            IN  /\ job.status = COMPLETED
                /\ job.result # None
                /\ job.result[1].files = <<>>
                /\ job.result[1].total_documents = 0
                /\ job.processed_files = 0

=============================================================================
